---- MODULE Spec2Model ----
(***************************************************************************)
(* lovefield: lf.backstore.MemoryTable (lib/backstore/memory_table.js) and *)
(* lf.proc.DefaultQueryEngine (lib/proc/default_query_engine.js).          *)
(*                                                                         *)
(* Spec    : one client issuing table calls one after the other, each      *)
(*           awaited before the next (promise chains of at most two        *)
(*           calls), and asking the query engine for plans.                *)
(* SpecIL  : a reading query and a writing query on one table, their       *)
(*           calls interleaved at the suspension points: a call runs to    *)
(*           its end, its continuation is delivered at a later turn.       *)
(* SpecDel : a deleting query (a get of the rows, then remove of the       *)
(*           matching identities) and the writing query, interleaved the   *)
(*           same way.                                                     *)
(***************************************************************************)
EXTENDS Integers, Sequences, FiniteSets, TLC

VARIABLES
  data,   \* MemoryTable.data_
  hist,   \* Spec: the calls of the client's chain in progress
  eng,    \* Spec: what the last getPlan did and returned
  rd,     \* SpecIL: the reading query
  wr,     \* SpecIL, SpecDel: the writing query
  dl      \* SpecDel: the deleting query

vars == <<data, hist, eng, rd, wr, dl>>

(* ------------------------------ bounds -------------------------------- *)

\* Row identities are 1..NumIds.
NumIds == 2

\* Longest list of rows or of identities handed to one call.
MaxLen == 2

\* The same, for the calls of the interleaved queries.
MaxLenIL == 2

Ids == 1..NumIds

\* Opaque row payloads.
Payloads == {"a", "b"}

\* lf.Row: an identity (row.id()) and a payload.
Rows == [id : Ids, val : Payloads]

\* The null that goog.structs.Map.get(key, null) gives for a missing key.
Null == [id |-> 0, val |-> "null"]

SeqsUpTo(S, n) == UNION {[1..k -> S] : k \in 0..n}

RowLists == SeqsUpTo(Rows, MaxLen)

IdLists == SeqsUpTo(Ids, MaxLen)

\* The interleaved queries hand the table what the engine's operators do:
\* rows of distinct identities, and identities without repeats.
RowListsIL ==
  {rows \in SeqsUpTo(Rows, MaxLenIL) :
     \A i, j \in 1..Len(rows) : rows[i].id = rows[j].id => i = j}

IdListsIL ==
  {ids \in SeqsUpTo(Ids, MaxLenIL) :
     \A i, j \in 1..Len(ids) : ids[i] = ids[j] => i = j}

Range(s) == {s[i] : i \in 1..Len(s)}

\* [r.id() for r in rows]
IdsOf(rows) == [i \in 1..Len(rows) |-> rows[i].id]

(* --------------------------- goog.structs.Map -------------------------- *)
(* data_ is a goog.structs.Map: keys in insertion order and the value      *)
(* stored under each key.                                                  *)

EmptyMap == [keys |-> <<>>, vals |-> [k \in Ids |-> Null]]

MapContainsKey(m, k) == \E i \in 1..Len(m.keys) : m.keys[i] = k

\* Map.get(key, opt_val)
MapGet(m, k, dflt) == IF MapContainsKey(m, k) THEN m.vals[k] ELSE dflt

\* Map.set(key, value): a new key is appended, a known key keeps its place.
MapSet(m, k, v) ==
  [keys |-> IF MapContainsKey(m, k) THEN m.keys ELSE Append(m.keys, k),
   vals |-> [m.vals EXCEPT ![k] = v]]

\* Map.remove(key): no effect for a key that is not there.
MapRemove(m, k) ==
  [keys |-> SelectSeq(m.keys, LAMBDA x : x # k),
   vals |-> [m.vals EXCEPT ![k] = Null]]

\* Map.clear()
MapClear(m) == EmptyMap

\* Map.getCount()
MapGetCount(m) == Len(m.keys)

\* Map.getValues(): a fresh array of the values, in key order.
MapGetValues(m) == [i \in 1..Len(m.keys) |-> m.vals[m.keys[i]]]

(* ------------------------------ MemoryTable ---------------------------- *)

\* A put that stores every row under one key.
PutKey_sameKey(row) == 1

\* The key put stores a row under: row.id().
PutKey(row) == row.id

\* A put that stops after its first row.
PutRows_firstOnly(m, rows) ==
  IF rows = <<>> THEN m ELSE MapSet(m, rows[1].id, rows[1])

\* A put that leaves a stored row in place instead of replacing it.
RECURSIVE PutRows_noOverwrite(_, _)
PutRows_noOverwrite(m, rows) ==
  IF rows = <<>> THEN m
  ELSE PutRows_noOverwrite(
         IF MapContainsKey(m, rows[1].id) THEN m
         ELSE MapSet(m, rows[1].id, rows[1]),
         Tail(rows))

\* rows.forEach(function(row) { this.data_.set(row.id(), row); })
RECURSIVE PutRows(_, _)
PutRows(m, rows) ==
  IF rows = <<>> THEN m
  ELSE PutRows(MapSet(m, PutKey(rows[1]), rows[1]), Tail(rows))

\* A get that looks up its first identity only.
GetRows_firstOnly(m, ids) ==
  IF ids = <<>> \/ MapGet(m, ids[1], Null) = Null THEN <<>>
  ELSE <<MapGet(m, ids[1], Null)>>

\* ids.forEach(...): push the row of each id that is stored.
RECURSIVE GetRows(_, _)
GetRows(m, ids) ==
  IF ids = <<>> THEN <<>>
  ELSE LET row == MapGet(m, ids[1], Null)
       IN  (IF row # Null THEN <<row>> ELSE <<>>) \o GetRows(m, Tail(ids))

\* A getAll_ that misses the first value.
GetAll_dropFirst(m) ==
  IF MapGetCount(m) = 0 THEN <<>> ELSE Tail(MapGetValues(m))

\* getAll_()
GetAll(m) == MapGetValues(m)

\* A get without the "empty means all rows" case.
GetResult_noAll(m, ids) == GetRows(m, ids)

\* The array get(ids) resolves its promise with.
GetResult(m, ids) == IF Len(ids) = 0 THEN GetAll(m) ELSE GetRows(m, ids)

\* ids.forEach(function(id) { this.data_.remove(id); })
RECURSIVE RemoveEach(_, _)
RemoveEach(m, ids) ==
  IF ids = <<>> THEN m ELSE RemoveEach(MapRemove(m, ids[1]), Tail(ids))

\* A remove that clears the table for an empty list only.
RemoveAll_emptyOnly(m, ids) == Len(ids) = 0

\* A remove without the "empty means all rows" case.
RemoveAll_countOnly(m, ids) == Len(ids) = MapGetCount(m)

\* The test that makes remove clear the table.
RemoveAll(m, ids) == Len(ids) = 0 \/ Len(ids) = MapGetCount(m)

\* The table after remove(ids).
RemoveResult(m, ids) ==
  IF RemoveAll(m, ids) THEN MapClear(m) ELSE RemoveEach(m, ids)

(* ----------------------------- query engine ---------------------------- *)

\* The four shapes of query getPlan is given, with or without a predicate.
QueryShapes == [kind : {"select", "insert", "update", "delete"}, pred : BOOLEAN]

\* LogicalPlanFactory.create: the logical tree of a one-table query, root
\* first.
LogicalPlanFactoryCreate(query) ==
  LET below == (IF query.pred THEN <<"select">> ELSE <<>>) \o <<"table_access">>
  IN  CASE query.kind = "select" -> <<"project">> \o below
        [] query.kind = "insert" -> <<"insert">>
        [] query.kind = "update" -> <<"update">> \o below
        [] OTHER -> <<"delete">> \o below

\* PhysicalPlanFactory.create: one executable node per logical node, in the
\* same structure.
PhysicalPlanFactoryCreate(logical) ==
  [i \in 1..Len(logical) |-> [step |-> logical[i], executable |-> TRUE]]

\* convertToLogicalPlan_(query)
convertToLogicalPlan_(query) ==
  [ret |-> LogicalPlanFactoryCreate(query),
   calls |-> <<"LogicalPlanFactory.create">>]

\* convertToPhysicalPlan_(logicalQueryPlan)
convertToPhysicalPlan_(logicalQueryPlan) ==
  [ret |-> PhysicalPlanFactoryCreate(logicalQueryPlan),
   from |-> logicalQueryPlan,
   calls |-> <<"PhysicalPlanFactory.create">>]

\* A getPlan that also runs the plan it built against the table.
getPlan_eager(query) ==
  LET logicalQueryPlan == convertToLogicalPlan_(query)
      physical == convertToPhysicalPlan_(logicalQueryPlan.ret)
  IN  [query |-> query,
       from |-> physical.from,
       plan |-> physical.ret,
       calls |-> logicalQueryPlan.calls \o physical.calls
                   \o (CASE query.kind = "delete" -> <<"MemoryTable.get", "MemoryTable.remove">>
                         [] query.kind = "insert" -> <<"MemoryTable.put">>
                         [] query.kind = "update" -> <<"MemoryTable.get", "MemoryTable.put">>
                         [] OTHER -> <<"MemoryTable.get">>)]

\* getPlan(query): the plan it returns, the logical plan it handed to the
\* physical factory, and the calls it made, in order.
getPlan(query) ==
  LET logicalQueryPlan == convertToLogicalPlan_(query)
      physical == convertToPhysicalPlan_(logicalQueryPlan.ret)
  IN  [query |-> query,
       from |-> physical.from,
       plan |-> physical.ret,
       calls |-> logicalQueryPlan.calls \o physical.calls]

\* What a sequence of calls does to a table: only MemoryTable calls touch
\* it; the factories' create keeps it as it is.
RECURSIVE TableAfter(_, _)
TableAfter(m, calls) ==
  IF calls = <<>> THEN m
  ELSE TableAfter(
         CASE calls[1] = "MemoryTable.remove" -> RemoveResult(m, <<>>)
           [] OTHER -> m,
         Tail(calls))

\* TableAccess(t): every row currently in t, each wrapped under the table's
\* name.
TableAccess(m) ==
  LET rows == GetResult(m, <<>>) IN [i \in 1..Len(rows) |-> [t |-> rows[i]]]

\* Project with one table in scope: the flat row.
ProjectAll(relation) == [i \in 1..Len(relation) |-> relation[i].t]

\* Whether the rows of a list have pairwise distinct identities.
DistinctIds(rows) ==
  \A i, j \in 1..Len(rows) : rows[i].id = rows[j].id => i = j

(* ------------------------------- the client ---------------------------- *)

NoPlan ==
  [query |-> [kind |-> "none", pred |-> FALSE], from |-> <<>>, plan |-> <<>>,
   calls |-> <<>>]

\* One finished table call: its arguments, the table before it and the
\* value its promise resolved with.
Call(op, rows, ids, pre, res) ==
  [op |-> op, rows |-> rows, ids |-> ids, pre |-> pre, res |-> res]

\* The operation that started the chain in progress.
First == IF hist = <<>> THEN "none" ELSE hist[1].op

\* A query with no call in flight and nothing delivered yet.
Idle == [pc |-> "ready", op |-> "none", rows |-> <<>>, ids |-> <<>>,
         res |-> <<>>, out |-> <<>>, after |-> FALSE]

\* A deleting query that has not started: its predicate, the rows its get
\* was resolved with, the identities it handed to remove, and the table
\* right before and right after that remove.
NoDelete == [pc |-> "ready", pred |-> "all", res |-> <<>>, ids |-> <<>>,
             before |-> EmptyMap, after |-> EmptyMap]

Init ==
  /\ data = EmptyMap
  /\ hist = <<>>
  /\ eng = NoPlan
  /\ rd = Idle
  /\ wr = Idle
  /\ dl = NoDelete

\* table.put(rows)
Put(rows) ==
  /\ hist = <<>>
  /\ data' = PutRows(data, rows)
  /\ hist' = <<Call("put", rows, <<>>, data, <<>>)>>
  /\ eng' = NoPlan
  /\ UNCHANGED <<rd, wr, dl>>

\* table.remove(ids)
Remove(ids) ==
  /\ hist = <<>>
  /\ data' = RemoveResult(data, ids)
  /\ hist' = <<Call("remove", <<>>, ids, data, <<>>)>>
  /\ eng' = NoPlan
  /\ UNCHANGED <<rd, wr, dl>>

\* The identity lists the client reads with: any list to start a chain;
\* after a write, the identities it wrote or removed.
GetInputs ==
  IF hist = <<>> THEN IdLists ELSE {hist[1].ids \o IdsOf(hist[1].rows)}

\* table.get(ids)
Get(ids) ==
  /\ Len(hist) < 2
  /\ First \in {"none", "put", "remove"}
  /\ data' = data
  /\ hist' = Append(hist, Call("get", <<>>, ids, data, GetResult(data, ids)))
  /\ eng' = NoPlan
  /\ UNCHANGED <<rd, wr, dl>>

\* insert().into(t).values(rows).exec(): Insert(t, rows) writes the rows to
\* t. Rows of one table have distinct identities, none stored yet.
Insert(rows) ==
  /\ hist = <<>>
  /\ DistinctIds(rows)
  /\ \A i \in 1..Len(rows) : ~MapContainsKey(data, rows[i].id)
  /\ data' = PutRows(data, rows)
  /\ hist' = <<Call("insert", rows, <<>>, data, <<>>)>>
  /\ eng' = NoPlan
  /\ UNCHANGED <<rd, wr, dl>>

\* select().from(t).exec(): no predicate, no limit, no skip.
Select ==
  /\ Len(hist) < 2
  /\ First \in {"none", "insert"}
  /\ data' = data
  /\ hist' = Append(hist, Call("select", <<>>, <<>>, data,
                               ProjectAll(TableAccess(data))))
  /\ eng' = NoPlan
  /\ UNCHANGED <<rd, wr, dl>>

\* engine.getPlan(query)
GetPlan(query) ==
  /\ hist = <<>>
  /\ eng = NoPlan
  /\ eng' = getPlan(query)
  /\ data' = TableAfter(data, getPlan(query).calls)
  /\ hist' = hist
  /\ UNCHANGED <<rd, wr, dl>>

\* The chain's last continuation has run; the client starts afresh.
Settle ==
  /\ hist # <<>> \/ eng # NoPlan
  /\ hist' = <<>>
  /\ eng' = NoPlan
  /\ data' = data
  /\ UNCHANGED <<rd, wr, dl>>

Next ==
  \/ \E rows \in RowLists : Put(rows)
  \/ \E ids \in IdLists : Remove(ids)
  \/ \E ids \in GetInputs : Get(ids)
  \/ \E rows \in RowLists : Insert(rows)
  \/ Select
  \/ \E query \in QueryShapes : GetPlan(query)
  \/ Settle

Spec == Init /\ [][Next]_vars

(* ------------------------- interleaved queries ------------------------- *)

\* A get whose rows are read from the table when the continuation runs.
Delivered_live(m, p) == GetResult(m, p.ids)

\* The value handed to the continuation of a call: the array the promise
\* was resolved with when the call was made.
Delivered(m, p) == p.res

\* The reading query calls table.get(ids).
ReaderGet(ids) ==
  /\ rd.pc = "ready"
  /\ rd' = [pc |-> "await", op |-> "get", rows |-> <<>>, ids |-> ids,
            res |-> GetResult(data, ids), out |-> <<>>,
            after |-> (wr.pc = "await")]
  /\ UNCHANGED <<data, wr, hist, eng, dl>>

\* The continuation of the reading query's get runs.
ReaderDeliver ==
  /\ rd.pc = "await"
  /\ rd' = [Idle EXCEPT !.op = "got", !.out = Delivered(data, rd)]
  /\ UNCHANGED <<data, wr, hist, eng, dl>>

\* The writing query calls table.put(rows).
WriterPut(rows) ==
  /\ wr.pc = "ready"
  /\ data' = PutRows(data, rows)
  /\ wr' = [Idle EXCEPT !.pc = "await", !.op = "put", !.rows = rows]
  /\ rd' = [rd EXCEPT !.after = FALSE]
  /\ UNCHANGED <<hist, eng, dl>>

\* The writing query calls table.remove(ids).
WriterRemove(ids) ==
  /\ wr.pc = "ready"
  /\ data' = RemoveResult(data, ids)
  /\ wr' = [Idle EXCEPT !.pc = "await", !.op = "remove"]
  /\ rd' = [rd EXCEPT !.after = FALSE]
  /\ UNCHANGED <<hist, eng, dl>>

\* The continuation of the writing query's call runs.
WriterDeliver ==
  /\ wr.pc = "await"
  /\ wr' = Idle
  /\ rd' = [rd EXCEPT !.after = FALSE]
  /\ UNCHANGED <<data, hist, eng, dl>>

NextIL ==
  \/ \E ids \in IdListsIL : ReaderGet(ids)
  \/ ReaderDeliver
  \/ \E rows \in RowListsIL : WriterPut(rows)
  \/ \E ids \in IdListsIL : WriterRemove(ids)
  \/ WriterDeliver

SpecIL == Init /\ [][NextIL]_vars

(* ---------------------------- deleting query --------------------------- *)

\* The predicates of a delete: none ("all"), or payload = v.
Preds == Payloads \cup {"all"}

\* predicate.evaluate(row)
Matches(pred, row) == pred = "all" \/ row.val = pred

\* Select(p) over the rows read: the rows for which p holds.
RECURSIVE Matching(_, _)
Matching(pred, rows) ==
  IF rows = <<>> THEN <<>>
  ELSE (IF Matches(pred, rows[1]) THEN <<rows[1]>> ELSE <<>>)
         \o Matching(pred, Tail(rows))

\* Delete(t, pred), first step: the rows of t are read with table.get([]).
DeleteRead(pred) ==
  /\ dl.pc = "ready"
  /\ dl' = [NoDelete EXCEPT !.pc = "reading", !.pred = pred,
                            !.res = GetResult(data, <<>>)]
  /\ UNCHANGED <<data, wr, rd, hist, eng>>

\* Delete(t, pred), second step: the continuation of the get picks the
\* identities of the rows that match and calls table.remove with them.
DeleteRemove ==
  /\ dl.pc = "reading"
  /\ LET ids == IdsOf(Matching(dl.pred, Delivered(data, dl)))
     IN  /\ data' = RemoveResult(data, ids)
         /\ dl' = [dl EXCEPT !.pc = "removed", !.ids = ids, !.before = data,
                              !.after = RemoveResult(data, ids)]
  /\ UNCHANGED <<wr, rd, hist, eng>>

\* The continuation of the delete's remove runs.
DeleteDone ==
  /\ dl.pc = "removed"
  /\ dl' = NoDelete
  /\ UNCHANGED <<data, wr, rd, hist, eng>>

NextDel ==
  \/ \E pred \in Preds : DeleteRead(pred)
  \/ DeleteRemove
  \/ DeleteDone
  \/ \E rows \in RowListsIL : WriterPut(rows)
  \/ \E ids \in IdListsIL : WriterRemove(ids)
  \/ WriterDeliver

SpecDel == Init /\ [][NextDel]_vars

(* --------------------- reading a table, for the claims ----------------- *)

\* The identities a table stores a row under.
StoredIds(m) == Range(m.keys)

\* The rows a table stores.
StoredRows(m) == {m.vals[k] : k \in StoredIds(m)}

\* The last row of a list carrying identity k.
LastWith(rows, k) ==
  rows[CHOOSE i \in 1..Len(rows) :
         rows[i].id = k /\ \A j \in (i + 1)..Len(rows) : rows[j].id # k]

\* For each identity of a list, the last row carrying it.
LastRows(rows) == {LastWith(rows, k) : k \in Range(IdsOf(rows))}

\* Rows of a list that share an identity are the same row.
Consistent(rows) ==
  \A i, j \in 1..Len(rows) : rows[i].id = rows[j].id => rows[i] = rows[j]

\* The chain is call a followed by call b.
Chain(a, b) == Len(hist) = 2 /\ hist[1].op = a /\ hist[2].op = b

\* The last call was op, and nothing has followed it.
Just(op) == Len(hist) = 1 /\ hist[1].op = op

(* -------------------------------- C1 ----------------------------------- *)

\* C1 as stated: for every list rs (any length, repeated identities or
\* not), put(rs) and then get of the identities of rs returns, as a set, rs.
C1_AsStated ==
  (Chain("put", "get") /\ hist[2].ids = IdsOf(hist[1].rows))
    => Range(hist[2].res) = Range(hist[1].rows)

\* C1, amended: for a non-empty rs, put(rs) and then get of the identities
\* of rs returns, as a set, the last row of rs for each identity, which is
\* rs itself when rows of rs sharing an identity are the same row; for an
\* empty rs the get returns every stored row.
C1_PutThenGet ==
  (Chain("put", "get") /\ hist[2].ids = IdsOf(hist[1].rows))
    => LET rs == hist[1].rows
           got == Range(hist[2].res)
       IN  /\ rs # <<>> => got = LastRows(rs)
           /\ (rs # <<>> /\ Consistent(rs)) => got = Range(rs)
           /\ rs = <<>> => got = StoredRows(hist[1].pre)

\* A put of two rows, one of them replacing a stored row, read back.
C1_Witness ==
  /\ Chain("put", "get")
  /\ hist[2].ids = IdsOf(hist[1].rows)
  /\ Len(hist[1].rows) = 2
  /\ DistinctIds(hist[1].rows)
  /\ MapGetCount(hist[1].pre) = 1
  /\ StoredRows(hist[1].pre) \cap Range(hist[1].rows) = {}
  /\ Len(hist[2].res) = 2

(* -------------------------------- C2 ----------------------------------- *)

\* C2: remove(ids) clears the table when ids is empty or as long as the row
\* count; otherwise it removes the rows whose identity is listed, skips
\* listed identities that are not stored, and leaves every other row as it
\* was.
C2_Remove ==
  Just("remove")
    => LET pre == hist[1].pre
           ids == hist[1].ids
       IN  IF Len(ids) = 0 \/ Len(ids) = Cardinality(StoredIds(pre))
           THEN StoredIds(data) = {} /\ MapGetCount(data) = 0
           ELSE /\ StoredIds(data) = StoredIds(pre) \ Range(ids)
                /\ \A k \in StoredIds(data) : data.vals[k] = pre.vals[k]
                /\ MapGetCount(data) = Cardinality(StoredIds(data))

\* A remove of one of two rows: the other row stays.
C2_Witness ==
  /\ Just("remove")
  /\ Len(hist[1].ids) = 1
  /\ Cardinality(StoredIds(hist[1].pre)) = 2
  /\ Cardinality(StoredIds(data)) = 1

\* A remove that lists a stored identity and one that is not stored.
C2_WitnessSkip ==
  /\ Just("remove")
  /\ Len(hist[1].ids) = 2
  /\ Cardinality(StoredIds(hist[1].pre)) = 1
  /\ Range(hist[1].ids) \cap StoredIds(hist[1].pre) # {}
  /\ Range(hist[1].ids) \ StoredIds(hist[1].pre) # {}
  /\ StoredIds(data) = {}

\* A remove as long as the row count clears rows it does not list.
C2_WitnessClear ==
  /\ Just("remove")
  /\ Len(hist[1].ids) = 2
  /\ Cardinality(StoredIds(hist[1].pre)) = 2
  /\ Cardinality(Range(hist[1].ids)) = 1
  /\ StoredIds(data) = {}

(* -------------------------------- C3 ----------------------------------- *)

\* C3: get(ids) with a non-empty ids returns the stored rows whose identity
\* is in ids and nothing for an identity that is not stored; get with an
\* empty ids returns every stored row; the table is left as it was.
C3_Get ==
  (hist # <<>> /\ hist[Len(hist)].op = "get")
    => LET c == hist[Len(hist)]
       IN  /\ data = c.pre
           /\ Null \notin Range(c.res)
           /\ IF c.ids # <<>>
              THEN /\ Range(c.res)
                        = {c.pre.vals[k] : k \in Range(c.ids) \cap StoredIds(c.pre)}
                   /\ Len(c.res)
                        = Cardinality({i \in 1..Len(c.ids) : c.ids[i] \in StoredIds(c.pre)})
              ELSE /\ Range(c.res) = StoredRows(c.pre)
                   /\ Len(c.res) = Cardinality(StoredIds(c.pre))

\* A get that lists a stored and a missing identity.
C3_Witness ==
  /\ Just("get")
  /\ Len(hist[1].ids) >= 2
  /\ Range(hist[1].ids) \cap StoredIds(data) # {}
  /\ Range(hist[1].ids) \ StoredIds(data) # {}
  /\ Len(hist[1].res) >= 1

(* -------------------------------- C4 ----------------------------------- *)

\* C4: for a list I of identities that are all stored (empty, or with
\* repeats), remove(I) and then get(I) returns nothing.
C4_RemoveThenGet ==
  (/\ Chain("remove", "get")
   /\ hist[2].ids = hist[1].ids
   /\ Range(hist[1].ids) \subseteq StoredIds(hist[1].pre))
    => hist[2].res = <<>>

\* One of two rows removed, then read.
C4_Witness ==
  /\ Chain("remove", "get")
  /\ hist[2].ids = hist[1].ids
  /\ Len(hist[1].ids) = 1
  /\ Range(hist[1].ids) \subseteq StoredIds(hist[1].pre)
  /\ Cardinality(StoredIds(hist[1].pre)) = 2
  /\ MapGetCount(data) = 1
  /\ hist[2].res = <<>>

\* remove([]) and then get([]) on a table that held rows.
C4_WitnessEmpty ==
  /\ Chain("remove", "get")
  /\ hist[1].ids = <<>>
  /\ hist[2].ids = <<>>
  /\ MapGetCount(hist[1].pre) = 2
  /\ hist[2].res = <<>>

(* -------------------------------- C5 ----------------------------------- *)

\* C5: put(rows) is an upsert: each identity of rows maps to the last row of
\* rows carrying it, the row count grows by the number of identities that
\* were not stored, and every other stored row is as it was.
C5_Upsert ==
  Just("put")
    => LET pre == hist[1].pre
           rows == hist[1].rows
           put == Range(IdsOf(rows))
       IN  /\ StoredIds(data) = StoredIds(pre) \cup put
           /\ \A k \in put : data.vals[k] = LastWith(rows, k)
           /\ \A k \in StoredIds(pre) \ put : data.vals[k] = pre.vals[k]
           /\ MapGetCount(data)
                = MapGetCount(pre) + Cardinality(put \ StoredIds(pre))

\* A put that replaces a stored row and adds a new one.
C5_Witness ==
  /\ Just("put")
  /\ Len(hist[1].rows) = 2
  /\ Cardinality(Range(IdsOf(hist[1].rows))) = 2
  /\ MapGetCount(hist[1].pre) = 1
  /\ MapGetCount(data) = 2
  /\ \E k \in StoredIds(hist[1].pre) : data.vals[k] # hist[1].pre.vals[k]

(* -------------------------------- C6 ----------------------------------- *)

\* C6: every stored row is stored under its own identity, and no two stored
\* rows have the same identity.
C6_KeysMatch ==
  /\ \A i \in 1..Len(data.keys) : data.vals[data.keys[i]].id = data.keys[i]
  /\ \A i, j \in 1..Len(data.keys) :
       data.vals[data.keys[i]].id = data.vals[data.keys[j]].id => i = j

\* A remove has left one of two rows.
C6_Witness ==
  /\ Just("remove")
  /\ MapGetCount(hist[1].pre) = 2
  /\ MapGetCount(data) = 1

(* -------------------------------- C7 ----------------------------------- *)

\* The reading query calls get in this step.
ReaderCalls == rd.pc = "ready" /\ rd'.pc = "await"

\* C7: put is atomic per call under interleaving. A get called while a put
\* is suspended (made, its continuation not yet delivered) shows every row
\* that put wrote among those the get asks for, never a part of them; a get
\* that is suspended while a put is made keeps its result, which shows
\* nothing of that put. (A put writes, for each identity of its rows, the
\* last row carrying it.)
C7_PutAtomic ==
  [][/\ (ReaderCalls /\ wr.pc = "await" /\ wr.op = "put")
          => \A k \in Range(IdsOf(wr.rows)) :
               (rd'.ids = <<>> \/ k \in Range(rd'.ids))
                 => /\ LastWith(wr.rows, k) \in Range(rd'.res)
                    /\ \A r \in Range(rd'.res) : r.id = k => r = LastWith(wr.rows, k)
     /\ (rd.pc = "await" /\ wr.pc = "ready" /\ wr'.op = "put")
          => rd'.res = rd.res /\ rd'.pc = "await"]_vars

\* A get called while a put of two rows is suspended: both rows are in its
\* result.
C7_Witness ==
  /\ rd.pc = "await"
  /\ rd.after
  /\ wr.pc = "await"
  /\ wr.op = "put"
  /\ Len(wr.rows) = 2
  /\ DistinctIds(wr.rows)
  /\ Range(wr.rows) \subseteq Range(rd.res)

(* -------------------------------- C8 ----------------------------------- *)

\* C8: a get captures a snapshot. Its result is settled by the table at the
\* moment of the call, no put or remove of the other query changes it while
\* the get is suspended, and that list is what its continuation is given.
C8_Snapshot ==
  [][/\ ReaderCalls
          => /\ Range(rd'.res)
                  = (IF rd'.ids = <<>> THEN StoredRows(data)
                     ELSE {data.vals[k] : k \in Range(rd'.ids) \cap StoredIds(data)})
             /\ rd'.ids = <<>> => Len(rd'.res) = Cardinality(StoredIds(data))
     /\ (rd.pc = "await" /\ rd'.pc = "await") => rd'.res = rd.res
     /\ (rd.pc = "await" /\ rd'.pc = "ready") => rd'.out = rd.res]_vars

\* A get was delivered two rows that the table, rewritten since the call,
\* no longer holds as they were.
C8_Witness ==
  /\ rd.pc = "ready"
  /\ rd.op = "got"
  /\ Len(rd.out) = 2
  /\ StoredRows(data) \cap Range(rd.out) = {}
  /\ MapGetCount(data) = 1

\* A get was delivered two rows that have since been removed.
C8_WitnessRemoved ==
  /\ rd.pc = "ready"
  /\ rd.op = "got"
  /\ Len(rd.out) = 2
  /\ MapGetCount(data) = 0

(* -------------------------------- C9 ----------------------------------- *)

\* C9: rows with distinct identities inserted into an empty table, then a
\* select with no predicate, limit or skip: the result is the inserted rows
\* modulo order, as many as the table holds.
C9_InsertThenSelect ==
  (Chain("insert", "select") /\ MapGetCount(hist[1].pre) = 0)
    => /\ Range(hist[2].res) = Range(hist[1].rows)
       /\ Len(hist[2].res) = Len(hist[1].rows)
       /\ Len(hist[2].res) = MapGetCount(data)

\* Two rows inserted into the empty table and selected.
C9_Witness ==
  /\ Chain("insert", "select")
  /\ MapGetCount(hist[1].pre) = 0
  /\ Len(hist[1].rows) = 2
  /\ Len(hist[2].res) = 2

(* -------------------------------- C10 ---------------------------------- *)

\* C10: getPlan builds the logical plan, then the physical plan from that
\* logical plan, calls no get, put or remove of a table, and leaves the
\* table as it was.
C10_GetPlanPure ==
  [][eng' # NoPlan
       => /\ data' = data
          /\ eng'.calls = <<"LogicalPlanFactory.create", "PhysicalPlanFactory.create">>
          /\ eng'.from = LogicalPlanFactoryCreate(eng'.query)
          /\ eng'.plan = PhysicalPlanFactoryCreate(eng'.from)]_vars

\* A plan for a delete without predicate, over a table that holds rows.
C10_Witness ==
  /\ eng # NoPlan
  /\ eng.query = [kind |-> "delete", pred |-> FALSE]
  /\ Len(eng.plan) = 2
  /\ MapGetCount(data) = 2

(* -------------------------------- C11 ---------------------------------- *)

\* C11 as stated: Delete(t, pred), a get of the matching rows and then
\* remove of their identities, removes exactly the rows it read as
\* matching. Every other row the table held when the remove was called (a
\* row that did not match, a row another query put since the read) is still
\* stored and unchanged, also when no row matched; and a delete without
\* predicate leaves the table empty when nothing came between its read and
\* its remove.
C11_DeleteExact ==
  dl.pc = "removed"
    => /\ \A k \in StoredIds(dl.before) \ Range(dl.ids) :
            k \in StoredIds(dl.after) /\ dl.after.vals[k] = dl.before.vals[k]
       /\ \A k \in Range(dl.ids) : k \notin StoredIds(dl.after)
       /\ (dl.pred = "all" /\ MapGetValues(dl.before) = dl.res)
            => StoredIds(dl.after) = {}

\* C11, the part the code keeps: when the delete read a matching row and
\* the list it hands to remove is not as long as the row count at that
\* moment, exactly the listed rows go.
C11_WhenListed ==
  (dl.pc = "removed" /\ dl.ids # <<>> /\ Len(dl.ids) # MapGetCount(dl.before))
    => /\ StoredIds(dl.after) = StoredIds(dl.before) \ Range(dl.ids)
       /\ \A k \in StoredIds(dl.after) : dl.after.vals[k] = dl.before.vals[k]

\* A delete that matched no row of a table holding rows.
C11_NoMatch ==
  /\ dl.pc = "removed"
  /\ dl.ids = <<>>
  /\ dl.res # <<>>
  /\ MapGetCount(dl.before) = 2

\* A delete whose list is as long as the row count, over a table that
\* another query's put has changed since the read.
C11_CountAlike ==
  /\ dl.pc = "removed"
  /\ dl.ids # <<>>
  /\ Len(dl.ids) = MapGetCount(dl.before)
  /\ StoredIds(dl.before) \ Range(dl.ids) # {}

====
